---- MODULE Spec2Model ----
\* AdaSplit adaptive router (tools/routers/router_dynamic.py): the worker pool,
\* the RASP placement policy, the two wait queues with the dispatch task, and
\* the Q-HAP rebalancing loop, as one state machine over an integer clock.
EXTENDS Integers, Sequences, FiniteSets, TLC

\* ---------------------------------------------------------------- constants
HAP_HIGH_WATERMARK == 10
HAP_LOW_WATERMARK == 2
HAP_COOLDOWN == 5
RASP_STEAL_COOLDOWN == 2
WORKER_CONCURRENCY_LIMIT == 8
STATIC_THRESHOLD == 3000
NumWorkers == 4
BaselineLong == 2

\* ------------------------------------------------------------------- bounds
MaxArrivals == 1       \* requests that reach chat_completions in a run
MaxCompletions == 1    \* forwarded requests whose send() returns or raises in a run
MaxTime == 10          \* last clock reading, in seconds since construction
MaxQueued == 2         \* requests of one class ever queued, under a steady stream
MaxReady == 2          \* tasks ready at a time, under a steady stream
MaxTwinArrivals == 5   \* requests that reach the two schedulers run side by side
MaxTwinTime == 3       \* last clock reading of the two schedulers run side by side

LONG == "LONG"
SHORT == "SHORT"
TaskType == {LONG, SHORT}
None == 0
WORKER_URLS == 1..NumWorkers

\* total content lengths (characters) a request body may carry
BodyLens == {4 * STATIC_THRESHOLD + 3, 4 * STATIC_THRESHOLD + 4}

\* the same with a body that has no message at all, for the specification that
\* records the length (elsewhere it acts like any other SHORT body)
RecordedBodyLens == BodyLens \cup {0}

VARIABLES
  current_role,         \* Worker.current_role, per worker id
  active_requests,      \* Worker.active_requests
  last_active_time,     \* Worker.last_active_time
  queue_long,           \* scheduler.queue_long: futures, oldest first
  queue_short,          \* scheduler.queue_short
  last_rebalance_time,  \* scheduler.last_rebalance_time
  now,                  \* time.time(), whole seconds since construction
  qhap_pc,              \* run_qhap_loop: "sleep" inside asyncio.sleep(1), "wake" after it
  in_flight,            \* per worker and class: process_request calls suspended in send()
  ready,                \* event loop's FIFO of created, not yet started tasks
  created,              \* per class: futures created by chat_completions in this run
  dispatched,           \* per class: futures in the order dispatch_queue popped them
  transition_log,       \* clock readings at which run_qhap_loop changed a role
  arrivals,             \* requests handled in this run
  completions,          \* send() outcomes in this run
  running,              \* run_task tasks suspended in process_request: [worker, type, fut]
  resolutions,          \* run_task's calls on futures, in order: [type, fut, sent, outcome],
                        \*   sent: send() returned; outcome: "result" for set_result,
                        \*   "exception" for set_exception
  drains,               \* dispatch_queue invocations in this run
  role_change_undrained, \* a role changed and dispatch_queue has not run since
  abandoned,            \* per class: queued futures whose caller has disconnected
  body_len,             \* content length of the body chat_completions read last, -1
                        \*   before the first (only recorded under AdmissionSpec)
  twin                  \* the busy/idle scheduler and the counting scheduler with limit
                        \*   1 side by side, with their clock (only run under TwinSpec)

vars == <<current_role, active_requests, last_active_time, queue_long, queue_short,
          last_rebalance_time, now, qhap_pc, in_flight, ready, created, dispatched,
          transition_log, arrivals, completions, running, resolutions, drains,
          role_change_undrained, abandoned, body_len, twin>>

Workers == WORKER_URLS

\* ---------------------------------------------------------------- Worker
can_accept(w) == active_requests[w] < WORKER_CONCURRENCY_LIMIT

\* idle duration without the test on active_requests
get_idle_duration_no_busy_check(w) == now - last_active_time[w]

get_idle_duration(w) ==
  IF active_requests[w] > 0 THEN 0 ELSE now - last_active_time[w]

dec_value(a) == IF a - 1 > 0 THEN a - 1 ELSE 0

\* ------------------------------------------------------- AdaSplitScheduler
n_long == Cardinality({w \in Workers : current_role[w] = LONG})
n_short == Cardinality({w \in Workers : current_role[w] = SHORT})

MinWorker(S) == CHOOSE w \in S : \A v \in S : w <= v

\* the last of the least loaded
LeastLoadedLast(cands) ==
  CHOOSE w \in cands :
    /\ \A v \in cands : active_requests[w] <= active_requests[v]
    /\ \A v \in cands : active_requests[v] = active_requests[w] => v <= w

\* min(candidates, key=active_requests): the first of the least loaded
LeastLoaded(cands) ==
  MinWorker({w \in cands : \A v \in cands : active_requests[w] <= active_requests[v]})

HomeCandidates(task_type) ==
  {w \in Workers : current_role[w] = task_type /\ can_accept(w)}

\* steal test with >= in place of >
StealCandidatesAtCooldown(qshort) ==
  {w \in Workers : /\ current_role[w] = SHORT
                   /\ can_accept(w)
                   /\ Len(qshort) = 0
                   /\ get_idle_duration(w) >= RASP_STEAL_COOLDOWN}

StealCandidates(qshort) ==
  {w \in Workers : /\ current_role[w] = SHORT
                   /\ can_accept(w)
                   /\ Len(qshort) = 0
                   /\ get_idle_duration(w) > RASP_STEAL_COOLDOWN}

\* stealing allowed in both directions
try_get_worker_any_steal(task_type, qshort) ==
  IF HomeCandidates(task_type) # {}
    THEN LeastLoaded(HomeCandidates(task_type))
    ELSE LET idle == {w \in Workers : /\ current_role[w] # task_type
                                      /\ can_accept(w)
                                      /\ Len(qshort) = 0
                                      /\ get_idle_duration(w) > RASP_STEAL_COOLDOWN}
         IN IF idle # {} THEN MinWorker(idle) ELSE None

\* the steal step tried before home placement
try_get_worker_steal_first(task_type, qshort) ==
  IF task_type = LONG /\ StealCandidates(qshort) # {}
    THEN MinWorker(StealCandidates(qshort))
    ELSE IF HomeCandidates(task_type) # {}
           THEN LeastLoaded(HomeCandidates(task_type))
           ELSE None

\* home placement without the can_accept test
try_get_worker_ignores_capacity(task_type, qshort) ==
  LET home == {w \in Workers : current_role[w] = task_type}
  IN IF home # {}
       THEN LeastLoaded(home)
       ELSE IF task_type = LONG /\ StealCandidates(qshort) # {}
              THEN MinWorker(StealCandidates(qshort))
              ELSE None

\* SHORT requests placed only while no LONG request is waiting
try_get_worker_long_backlog_first(task_type, qshort) ==
  IF HomeCandidates(task_type) # {} /\ (task_type = LONG \/ queue_long = <<>>)
    THEN LeastLoaded(HomeCandidates(task_type))
    ELSE IF task_type = LONG /\ StealCandidates(qshort) # {}
           THEN MinWorker(StealCandidates(qshort))
           ELSE None

\* the steal step returning the last worker that passes the steal test
try_get_worker_steal_last(task_type, qshort) ==
  IF HomeCandidates(task_type) # {}
    THEN LeastLoaded(HomeCandidates(task_type))
    ELSE IF task_type = LONG /\ StealCandidates(qshort) # {}
           THEN CHOOSE w \in StealCandidates(qshort) :
                  \A v \in StealCandidates(qshort) : v <= w
           ELSE None

\* qshort is scheduler.queue_short as it stands when the decision is taken
try_get_worker(task_type, qshort) ==
  IF HomeCandidates(task_type) # {}
    THEN LeastLoaded(HomeCandidates(task_type))
    ELSE IF task_type = LONG /\ StealCandidates(qshort) # {}
           THEN MinWorker(StealCandidates(qshort))
           ELSE None

\* ---------------------------------------------------------------- helpers
estimate_token_count(txtlen) == txtlen \div 4

\* classification with >= in place of >
ClassifyAtThreshold(txtlen) ==
  IF estimate_token_count(txtlen) >= STATIC_THRESHOLD THEN LONG ELSE SHORT

Classify(txtlen) ==
  IF estimate_token_count(txtlen) > STATIC_THRESHOLD THEN LONG ELSE SHORT

DispatchTask == [kind |-> "dispatch_queue"]
\* n is the task's position among the tasks its dispatch_queue run created
RunTask(w, c, k, n) ==
  [kind |-> "run_task", worker |-> w, type |-> c, fut |-> k, seq |-> n]

\* first loop with "if" in place of "while": at most one placement
DrainShortOnce(q, acc) ==
  IF q = <<>> THEN [q |-> q, tasks |-> acc]
  ELSE LET worker == try_get_worker(SHORT, q) IN
       IF worker # None
         THEN [q |-> Tail(q),
               tasks |-> Append(acc, RunTask(worker, SHORT, Head(q), Len(acc) + 1))]
         ELSE [q |-> q, tasks |-> acc]

\* first loop of dispatch_queue: returns the remaining queue and the tasks created
RECURSIVE DrainShort(_, _)
DrainShort(q, acc) ==
  IF q = <<>> THEN [q |-> q, tasks |-> acc]
  ELSE LET worker == try_get_worker(SHORT, q) IN
       IF worker # None
         THEN DrainShort(Tail(q), Append(acc, RunTask(worker, SHORT, Head(q), Len(acc) + 1)))
         ELSE [q |-> q, tasks |-> acc]

\* second loop taking the newest entry (pop) instead of the oldest (popleft)
RECURSIVE DrainLongNewest(_, _, _)
DrainLongNewest(q, qshort, acc) ==
  IF q = <<>> THEN [q |-> q, tasks |-> acc]
  ELSE LET worker == try_get_worker(LONG, qshort) IN
       IF worker # None
         THEN DrainLongNewest(SubSeq(q, 1, Len(q) - 1), qshort,
                              Append(acc, RunTask(worker, LONG, q[Len(q)],
                                          Len(acc) + 1)))
         ELSE [q |-> q, tasks |-> acc]

\* second loop of dispatch_queue, run with the short queue the first loop left
RECURSIVE DrainLong(_, _, _)
DrainLong(q, qshort, acc) ==
  IF q = <<>> THEN [q |-> q, tasks |-> acc]
  ELSE LET worker == try_get_worker(LONG, qshort) IN
       IF worker # None
         THEN DrainLong(Tail(q), qshort, Append(acc, RunTask(worker, LONG, Head(q), Len(acc) + 1)))
         ELSE [q |-> q, tasks |-> acc]

\* the futures of class c among the tasks, in task order
Futs(tasks, c) ==
  LET idx == {i \in DOMAIN tasks : tasks[i].type = c}
      F[n \in 0..Len(tasks)] ==
        IF n = 0 THEN <<>>
        ELSE IF n \in idx THEN Append(F[n - 1], tasks[n].fut) ELSE F[n - 1]
  IN F[Len(tasks)]

\* ------------------------------------------------------------------- Init
\* A run starts from the state AdaSplitScheduler.__init__ builds (the empty
\* burst below) or from a later state of the router that the bounds on arrivals
\* and completions would put out of reach. Each of these states is reached from
\* the constructor state by the actions of this module. The history variables
\* (dispatched, transition_log, arrivals, completions) start empty: they record
\* the run from its starting state on, and the futures waiting at that state
\* are numbered from the head of their queue.

\* Opening burst: nl LONG or ns SHORT requests arrive within the first second.
\* While every worker's idle duration is 0 nothing is stolen, so least-loaded
\* placement alternates between the two home workers of each class until both
\* are full and the rest of the burst is queued.
Placed(n) == IF n < 2 * WORKER_CONCURRENCY_LIMIT THEN n ELSE 2 * WORKER_CONCURRENCY_LIMIT
Queued(n) == n - Placed(n)

\* forwards in flight when every worker only holds requests of its home class
\* ------------------------------------- the two variants of the scheduler
\* src/tools/router_dynamic.py keeps a flag is_busy per worker (mark_busy,
\* mark_idle); src/tools/routers/router_dynamic.py keeps the counter
\* active_requests. S is the state of one scheduler, v names the variant whose
\* code is applied to it, t is the clock reading. The counting variant is run
\* with the limit TwinLimit in place of WORKER_CONCURRENCY_LIMIT.
TwinLimit == 1

TwinScheduler ==
  [current_role |-> [w \in Workers |-> IF w <= 2 THEN LONG ELSE SHORT],
   is_busy |-> [w \in Workers |-> FALSE],
   active_requests |-> [w \in Workers |-> 0],
   last_active_time |-> [w \in Workers |-> 0],
   queue_long |-> <<>>,
   queue_short |-> <<>>,
   last_rebalance_time |-> 0,
   ready |-> <<>>,
   sending |-> {}]

TwinStart ==
  [binary |-> TwinScheduler, counter |-> TwinScheduler,
   now |-> 0, qhap_pc |-> "sleep", arrived |-> 0]

TwinDispatchTask == [kind |-> "dispatch_queue", worker |-> 0, req |-> 0]
TwinRunTask(w, k) == [kind |-> "run_task", worker |-> w, req |-> k]

twin_can_accept(S, v, w) ==
  IF v = "binary" THEN ~S.is_busy[w] ELSE S.active_requests[w] < TwinLimit

twin_get_idle_duration(S, v, w, t) ==
  IF (IF v = "binary" THEN S.is_busy[w] ELSE S.active_requests[w] > 0)
    THEN 0
    ELSE t - S.last_active_time[w]

\* mark_busy / inc_requests
twin_mark_busy(S, v, w) ==
  IF v = "binary"
    THEN [S EXCEPT !.is_busy[w] = TRUE]
    ELSE [S EXCEPT !.active_requests[w] = @ + 1]

\* mark_idle / dec_requests
twin_mark_idle(S, v, w, t) ==
  IF v = "binary"
    THEN [S EXCEPT !.is_busy[w] = FALSE, !.last_active_time[w] = t]
    ELSE LET n == dec_value(S.active_requests[w])
         IN [S EXCEPT !.active_requests[w] = n,
                      !.last_active_time[w] = IF n = 0 THEN t ELSE @]

\* candidates[0] / min(candidates, key=active_requests)
twin_home(S, v, cands) ==
  IF v = "binary"
    THEN MinWorker(cands)
    ELSE MinWorker({w \in cands :
                      \A u \in cands : S.active_requests[w] <= S.active_requests[u]})

twin_try_get_worker(S, v, task_type, t) ==
  LET candidates == {w \in Workers :
                       S.current_role[w] = task_type /\ twin_can_accept(S, v, w)}
      steal == {w \in Workers :
                  /\ S.current_role[w] = SHORT
                  /\ twin_can_accept(S, v, w)
                  /\ Len(S.queue_short) = 0
                  /\ twin_get_idle_duration(S, v, w, t) > RASP_STEAL_COOLDOWN}
  IN IF candidates # {}
       THEN twin_home(S, v, candidates)
       ELSE IF task_type = LONG /\ steal # {} THEN MinWorker(steal) ELSE None

\* process_request up to the send
twin_process_request(S, v, w, k) ==
  [twin_mark_busy(S, v, w) EXCEPT !.sending = @ \cup {[req |-> k, worker |-> w]}]

twin_chat_completions(S, v, task_type, k, t) ==
  LET worker == twin_try_get_worker(S, v, task_type, t)
  IN IF worker # None
       THEN twin_process_request(S, v, worker, k)
       ELSE IF task_type = LONG
              THEN [S EXCEPT !.queue_long = Append(@, k)]
              ELSE [S EXCEPT !.queue_short = Append(@, k)]

\* the finally block of process_request, for the request k that is being sent
twin_finally(S, v, k, t) ==
  LET e == CHOOSE x \in S.sending : x.req = k
  IN [twin_mark_idle(S, v, e.worker, t) EXCEPT
        !.sending = @ \ {e},
        !.ready = Append(@, TwinDispatchTask)]

\* one loop of dispatch_queue
RECURSIVE twin_drain(_, _, _, _)
twin_drain(S, v, task_type, t) ==
  LET q == IF task_type = LONG THEN S.queue_long ELSE S.queue_short
      worker == twin_try_get_worker(S, v, task_type, t)
  IN IF q = <<>> \/ worker = None
       THEN S
       ELSE twin_drain(
              IF task_type = LONG
                THEN [S EXCEPT !.queue_long = Tail(@),
                               !.ready = Append(@, TwinRunTask(worker, Head(q)))]
                ELSE [S EXCEPT !.queue_short = Tail(@),
                               !.ready = Append(@, TwinRunTask(worker, Head(q)))],
              v, task_type, t)

twin_dispatch_queue(S, v, t) ==
  twin_drain(twin_drain([S EXCEPT !.ready = Tail(@)], v, SHORT, t), v, LONG, t)

\* the run_task tasks at the head of the ready tasks, each up to its send
RECURSIVE twin_run_task(_, _)
twin_run_task(S, v) ==
  IF S.ready # <<>> /\ Head(S.ready).kind = "run_task"
    THEN twin_run_task(
           twin_process_request([S EXCEPT !.ready = Tail(@)], v,
                                Head(S.ready).worker, Head(S.ready).req),
           v)
    ELSE S

twin_run_ready(S, v, t) ==
  IF S.ready = <<>>
    THEN S
    ELSE IF Head(S.ready).kind = "dispatch_queue"
           THEN twin_dispatch_queue(S, v, t)
           ELSE twin_run_task(S, v)

\* one iteration of run_qhap_loop (the same code in both variants)
twin_run_qhap_loop(S, t) ==
  LET longs == {w \in Workers : S.current_role[w] = LONG}
      shorts == {w \in Workers : S.current_role[w] = SHORT}
  IN IF t - S.last_rebalance_time < HAP_COOLDOWN
       THEN S
       ELSE IF Len(S.queue_long) > HAP_HIGH_WATERMARK /\ Cardinality(shorts) > 1
              THEN [S EXCEPT !.current_role[MinWorker(shorts)] = LONG,
                             !.last_rebalance_time = t]
              ELSE IF Len(S.queue_long) < HAP_LOW_WATERMARK /\ Cardinality(longs) > 2
                     THEN [S EXCEPT !.current_role[CHOOSE w \in longs :
                                                     \A u \in longs : u <= w] = SHORT,
                                    !.last_rebalance_time = t]
                     ELSE S

InFlightOf(load) ==
  [w \in Workers |-> [c \in TaskType |->
     IF c = (IF w <= 2 THEN LONG ELSE SHORT) THEN load[w] ELSE 0]]

BurstLoad(nl, ns) ==
  [w \in Workers |->
     IF w = 1 THEN (Placed(nl) + 1) \div 2
     ELSE IF w = 2 THEN Placed(nl) \div 2
     ELSE IF w = 3 THEN (Placed(ns) + 1) \div 2
     ELSE Placed(ns) \div 2]

BurstLong == {0, 2 * WORKER_CONCURRENCY_LIMIT,
              2 * WORKER_CONCURRENCY_LIMIT + HAP_LOW_WATERMARK,
              2 * WORKER_CONCURRENCY_LIMIT + HAP_HIGH_WATERMARK + 1}
BurstShort == {0, 2 * WORKER_CONCURRENCY_LIMIT + 1}

InitBurst ==
  \E nl \in BurstLong, ns \in BurstShort :
    /\ nl = 0 \/ ns = 0
    /\ current_role = [w \in Workers |-> IF w <= 2 THEN LONG ELSE SHORT]
    /\ active_requests = BurstLoad(nl, ns)
    /\ last_active_time = [w \in Workers |-> 0]
    /\ queue_long = [i \in 1..Queued(nl) |-> i]
    /\ queue_short = [i \in 1..Queued(ns) |-> i]
    /\ last_rebalance_time = 0
    /\ now = 0
    /\ qhap_pc = "sleep"
    /\ in_flight = InFlightOf(BurstLoad(nl, ns))
    /\ ready = <<>>
    /\ created = [c \in TaskType |-> IF c = LONG THEN Queued(nl) ELSE Queued(ns)]
    /\ dispatched = [c \in TaskType |-> <<>>]
    /\ transition_log = <<>>
    /\ arrivals = 0
    /\ completions = 0
    /\ running = {}
    /\ resolutions = <<>>
    /\ drains = 0
    /\ role_change_undrained = FALSE
    /\ abandoned = [c \in TaskType |-> {}]
    /\ body_len = -1
    /\ twin = TwinStart

\* The router right after one scale-up / scale-down cycle. A burst of LONG
\* requests fills workers 1 and 2 and queues HAP_HIGH_WATERMARK + 1 more; the
\* tick at HAP_COOLDOWN turns worker 3 LONG; SHORT requests then fill worker 4
\* (and ns of them are queued); a release on worker 1 lets dispatch_queue hand
\* the whole LONG queue to worker 3, a LONG request refills worker 1 (or not:
\* l1), worker 3 finishes its last request at time la, and the tick at
\* 2 * HAP_COOLDOWN turns the idle worker 3 back to SHORT. No dispatch_queue
\* task runs after that role change, so a queued SHORT request stays queued
\* (role_change_undrained starts FALSE all the same: it records the run).
InitCycle ==
  \E l1 \in {WORKER_CONCURRENCY_LIMIT - 1, WORKER_CONCURRENCY_LIMIT},
     la \in {2 * HAP_COOLDOWN - RASP_STEAL_COOLDOWN - 1, 2 * HAP_COOLDOWN - RASP_STEAL_COOLDOWN},
     ns \in {0, 1} :
    /\ current_role = [w \in Workers |-> IF w <= 2 THEN LONG ELSE SHORT]
    /\ active_requests = [w \in Workers |->
                            IF w = 1 THEN l1
                            ELSE IF w = 3 THEN 0 ELSE WORKER_CONCURRENCY_LIMIT]
    /\ last_active_time = [w \in Workers |-> IF w = 3 THEN la ELSE 0]
    /\ queue_long = <<>>
    /\ queue_short = [i \in 1..ns |-> i]
    /\ last_rebalance_time = 2 * HAP_COOLDOWN
    /\ now = 2 * HAP_COOLDOWN
    /\ qhap_pc = "sleep"
    /\ in_flight = InFlightOf(active_requests)
    /\ ready = <<>>
    /\ created = [c \in TaskType |-> IF c = LONG THEN 0 ELSE ns]
    /\ dispatched = [c \in TaskType |-> <<>>]
    /\ transition_log = <<>>
    /\ arrivals = 0
    /\ completions = 0
    /\ running = {}
    /\ resolutions = <<>>
    /\ drains = 0
    /\ role_change_undrained = FALSE
    /\ abandoned = [c \in TaskType |-> {}]
    /\ body_len = -1
    /\ twin = TwinStart

\* The SHORT burst after the first of its forwards has returned on worker 3:
\* the slot is released and the dispatch_queue task it created is still waiting
\* in the event loop, with one SHORT request queued.
InitReleased ==
  LET ns == 2 * WORKER_CONCURRENCY_LIMIT + 1
      load == [BurstLoad(0, ns) EXCEPT ![3] = @ - 1]
  IN /\ current_role = [w \in Workers |-> IF w <= 2 THEN LONG ELSE SHORT]
     /\ active_requests = load
     /\ last_active_time = [w \in Workers |-> 0]
     /\ queue_long = <<>>
     /\ queue_short = [i \in 1..Queued(ns) |-> i]
     /\ last_rebalance_time = 0
     /\ now = 0
     /\ qhap_pc = "sleep"
     /\ in_flight = InFlightOf(load)
     /\ ready = <<DispatchTask>>
     /\ created = [c \in TaskType |-> IF c = LONG THEN 0 ELSE Queued(ns)]
     /\ dispatched = [c \in TaskType |-> <<>>]
     /\ transition_log = <<>>
     /\ arrivals = 0
     /\ completions = 0
     /\ running = {}
     /\ resolutions = <<>>
     /\ drains = 0
     /\ role_change_undrained = FALSE
     /\ abandoned = [c \in TaskType |-> {}]
     /\ body_len = -1
     /\ twin = TwinStart

\* The state after the cycle with workers 1, 2 and 4 full and worker 3 idle for
\* more than RASP_STEAL_COOLDOWN, once a LONG request has arrived: it was
\* placed on the SHORT-role worker 3 by the steal step and is being forwarded.
InitStolen ==
  /\ current_role = [w \in Workers |-> IF w <= 2 THEN LONG ELSE SHORT]
  /\ active_requests = [w \in Workers |-> IF w = 3 THEN 1 ELSE WORKER_CONCURRENCY_LIMIT]
  /\ last_active_time =
       [w \in Workers |-> IF w = 3 THEN 2 * HAP_COOLDOWN - RASP_STEAL_COOLDOWN - 1 ELSE 0]
  /\ queue_long = <<>>
  /\ queue_short = <<>>
  /\ last_rebalance_time = 2 * HAP_COOLDOWN
  /\ now = 2 * HAP_COOLDOWN
  /\ qhap_pc = "sleep"
  /\ in_flight = [InFlightOf(active_requests) EXCEPT ![3] = [LONG |-> 1, SHORT |-> 0]]
  /\ ready = <<>>
  /\ created = [c \in TaskType |-> 0]
  /\ dispatched = [c \in TaskType |-> <<>>]
  /\ transition_log = <<>>
  /\ arrivals = 0
  /\ completions = 0
  /\ running = {}
  /\ resolutions = <<>>
  /\ drains = 0
  /\ role_change_undrained = FALSE
  /\ abandoned = [c \in TaskType |-> {}]
  /\ body_len = -1
  /\ twin = TwinStart

Init == InitBurst \/ InitCycle \/ InitReleased \/ InitStolen

\* The long-heavy state of the same cycle one second before its scale-down:
\* worker 3 still has role LONG, its last request has finished, the LONG queue
\* is empty and the cooldown of the scale-up at HAP_COOLDOWN is about to end.
InitHeavy ==
  \E l1 \in {WORKER_CONCURRENCY_LIMIT - 1, WORKER_CONCURRENCY_LIMIT},
     la \in {2 * HAP_COOLDOWN - RASP_STEAL_COOLDOWN - 1, 2 * HAP_COOLDOWN - RASP_STEAL_COOLDOWN},
     ns \in {0, 1} :
    /\ current_role = [w \in Workers |-> IF w <= 3 THEN LONG ELSE SHORT]
    /\ active_requests = [w \in Workers |->
                            IF w = 1 THEN l1
                            ELSE IF w = 3 THEN 0 ELSE WORKER_CONCURRENCY_LIMIT]
    /\ last_active_time = [w \in Workers |-> IF w = 3 THEN la ELSE 0]
    /\ queue_long = <<>>
    /\ queue_short = [i \in 1..ns |-> i]
    /\ last_rebalance_time = HAP_COOLDOWN
    /\ now = 2 * HAP_COOLDOWN - 1
    /\ qhap_pc = "sleep"
    /\ in_flight = InFlightOf(active_requests)
    /\ ready = <<>>
    /\ created = [c \in TaskType |-> IF c = LONG THEN 0 ELSE ns]
    /\ dispatched = [c \in TaskType |-> <<>>]
    /\ transition_log = <<>>
    /\ arrivals = 0
    /\ completions = 0
    /\ running = {}
    /\ resolutions = <<>>
    /\ drains = 0
    /\ role_change_undrained = FALSE
    /\ abandoned = [c \in TaskType |-> {}]
    /\ body_len = -1
    /\ twin = TwinStart

LiveInit == InitHeavy \/ InitReleased

\* A SHORT request waiting behind worker 4, which is full, with roles LONG,
\* LONG, LONG, SHORT: the state after a scale-up, a LONG burst that has ended
\* at la, and 9 SHORT arrivals.
InitQueued ==
  \E la \in {2 * HAP_COOLDOWN - RASP_STEAL_COOLDOWN - 1} :
    /\ current_role = [w \in Workers |-> IF w <= 3 THEN LONG ELSE SHORT]
    /\ active_requests = [w \in Workers |->
                            IF w = 4 THEN WORKER_CONCURRENCY_LIMIT ELSE 0]
    /\ last_active_time = [w \in Workers |-> IF w = 4 THEN 0 ELSE la]
    /\ queue_long = <<>>
    /\ queue_short = <<1>>
    /\ last_rebalance_time = HAP_COOLDOWN
    /\ now = 2 * HAP_COOLDOWN - 1
    /\ qhap_pc = "sleep"
    /\ in_flight = InFlightOf(active_requests)
    /\ ready = <<>>
    /\ created = [d \in TaskType |-> IF d = SHORT THEN 1 ELSE 0]
    /\ dispatched = [d \in TaskType |-> <<>>]
    /\ transition_log = <<>>
    /\ arrivals = 0
    /\ completions = 0
    /\ running = {}
    /\ resolutions = <<>>
    /\ drains = 0
    /\ role_change_undrained = FALSE
    /\ abandoned = [d \in TaskType |-> {}]
    /\ body_len = -1
    /\ twin = TwinStart

\* ---------------------------------------------------------------- actions
\* process_request up to its first suspension: inc_requests, then send()
process_request_start(worker, c) ==
  /\ active_requests' = [active_requests EXCEPT ![worker] = @ + 1]
  /\ in_flight' = [in_flight EXCEPT ![worker][c] = @ + 1]

\* chat_completions in which a steal turns the stolen worker to the request's class
chat_completions_steal_converts(txtlen) ==
  /\ arrivals < MaxArrivals
  /\ arrivals' = arrivals + 1
  /\ LET task_type == Classify(txtlen)
         worker == try_get_worker(task_type, queue_short)
     IN IF worker # None
          THEN /\ process_request_start(worker, task_type)
               /\ current_role' = [current_role EXCEPT ![worker] = task_type]
               /\ UNCHANGED <<queue_long, queue_short, created>>
          ELSE /\ created' = [created EXCEPT ![task_type] = @ + 1]
               /\ IF task_type = LONG
                    THEN /\ queue_long' = Append(queue_long, created[LONG] + 1)
                         /\ UNCHANGED queue_short
                    ELSE /\ queue_short' = Append(queue_short, created[SHORT] + 1)
                         /\ UNCHANGED queue_long
               /\ UNCHANGED <<active_requests, in_flight, current_role>>
  /\ UNCHANGED <<last_active_time, last_rebalance_time, now, qhap_pc,
                 ready, dispatched, transition_log, completions, running,
                 resolutions, drains, role_change_undrained,
                 abandoned, body_len, twin>>

\* chat_completions that answers with an error when no worker is available
handle_request_rejects(txtlen) ==
  /\ arrivals < MaxArrivals
  /\ arrivals' = arrivals + 1
  /\ LET task_type == Classify(txtlen)
         worker == try_get_worker(task_type, queue_short)
     IN IF worker # None
          THEN process_request_start(worker, task_type)
          ELSE UNCHANGED <<active_requests, in_flight>>
  /\ UNCHANGED <<current_role, last_active_time, queue_long, queue_short, created,
                 last_rebalance_time, now, qhap_pc, ready, dispatched, transition_log,
                 completions, running, resolutions, drains, role_change_undrained,
                 abandoned, twin>>

\* chat_completions from classification to the direct forward or the enqueue
handle_request_body(txtlen) ==
  /\ LET task_type == Classify(txtlen)
         worker == try_get_worker(task_type, queue_short)
     IN IF worker # None
          THEN /\ process_request_start(worker, task_type)
               /\ UNCHANGED <<queue_long, queue_short, created>>
          ELSE /\ created' = [created EXCEPT ![task_type] = @ + 1]
               /\ IF task_type = LONG
                    THEN /\ queue_long' = Append(queue_long, created[LONG] + 1)
                         /\ UNCHANGED queue_short
                    ELSE /\ queue_short' = Append(queue_short, created[SHORT] + 1)
                         /\ UNCHANGED queue_long
               /\ UNCHANGED <<active_requests, in_flight>>
  /\ UNCHANGED <<current_role, last_active_time, last_rebalance_time, now, qhap_pc,
                 ready, dispatched, transition_log, completions, running,
                 resolutions, drains, role_change_undrained,
                 abandoned, twin>>

handle_request(txtlen) ==
  /\ arrivals < MaxArrivals
  /\ arrivals' = arrivals + 1
  /\ handle_request_body(txtlen)

chat_completions(txtlen) == handle_request(txtlen) /\ UNCHANGED body_len

\* the same handler with the content length of the body it read kept on record
chat_completions_recorded(txtlen) == handle_request(txtlen) /\ body_len' = txtlen

\* release written after the send instead of in a finally block
process_request_no_finally(worker, c, ok) ==
  /\ in_flight[worker][c] > 0
  /\ completions < MaxCompletions
  /\ completions' = completions + 1
  /\ in_flight' = [in_flight EXCEPT ![worker][c] = @ - 1]
  /\ active_requests' = IF ok THEN [active_requests EXCEPT ![worker] = dec_value(@)]
                               ELSE active_requests
  /\ last_active_time' =
       IF ok /\ active_requests'[worker] = 0
         THEN [last_active_time EXCEPT ![worker] = now]
         ELSE last_active_time
  /\ ready' = IF ok THEN Append(ready, DispatchTask) ELSE ready
  /\ UNCHANGED <<current_role, queue_long, queue_short, last_rebalance_time, now,
                 qhap_pc, created, dispatched, transition_log, arrivals, drains,
                 role_change_undrained,
                 abandoned, body_len, twin>>

\* release without the create_task(dispatch_queue()) that follows it
process_request_finally_no_drain(worker, c, ok) ==
  /\ in_flight[worker][c] > 0
  /\ completions < MaxCompletions
  /\ completions' = completions + 1
  /\ in_flight' = [in_flight EXCEPT ![worker][c] = @ - 1]
  /\ active_requests' = [active_requests EXCEPT ![worker] = dec_value(@)]
  /\ last_active_time' =
       IF active_requests'[worker] = 0
         THEN [last_active_time EXCEPT ![worker] = now]
         ELSE last_active_time
  /\ ready' = ready
  /\ UNCHANGED <<current_role, queue_long, queue_short, last_rebalance_time, now,
                 qhap_pc, created, dispatched, transition_log, arrivals, drains,
                 role_change_undrained,
                 abandoned, body_len, twin>>

\* the finally block of process_request, after send() returned (ok) or raised:
\* dec_requests, then create_task(dispatch_queue()); the caller of
\* process_request (chat_completions or run_task) continues in the same step
\* the finally block of process_request: dec_requests, then
\* create_task(dispatch_queue())
process_request_release(worker, c) ==
  /\ in_flight[worker][c] > 0
  /\ in_flight' = [in_flight EXCEPT ![worker][c] = @ - 1]
  /\ active_requests' = [active_requests EXCEPT ![worker] = dec_value(@)]
  /\ last_active_time' =
       IF active_requests'[worker] = 0
         THEN [last_active_time EXCEPT ![worker] = now]
         ELSE last_active_time
  /\ ready' = Append(ready, DispatchTask)
  /\ UNCHANGED <<current_role, queue_long, queue_short, last_rebalance_time, now,
                 qhap_pc, created, dispatched, transition_log, arrivals, drains,
                 role_change_undrained,
                 abandoned, body_len, twin>>

process_request_finally(worker, c, ok) ==
  /\ completions < MaxCompletions
  /\ completions' = completions + 1
  /\ process_request_release(worker, c)

\* the two loops in the other order
dispatch_queue_long_first ==
  /\ ready # <<>>
  /\ Head(ready).kind = "dispatch_queue"
  /\ \E l \in {DrainLong(queue_long, queue_short, <<>>)} :
     \E s \in {DrainShort(queue_short, l.tasks)} :
        /\ queue_short' = s.q
        /\ queue_long' = l.q
        /\ ready' = Tail(ready) \o s.tasks
        /\ dispatched' = [c \in TaskType |-> dispatched[c] \o Futs(s.tasks, c)]
  /\ drains' = drains + 1
  /\ role_change_undrained' = FALSE
  /\ UNCHANGED <<current_role, active_requests, last_active_time, last_rebalance_time,
                 now, qhap_pc, in_flight, created, transition_log, arrivals, completions,
                 running, resolutions, abandoned, body_len, twin>>

\* one run of the dispatch_queue task: it has no await, so both loops run in
\* one step; each placement only creates a run_task task
dispatch_queue_body ==
  /\ ready # <<>>
  /\ Head(ready).kind = "dispatch_queue"
  /\ \E s \in {DrainShort(queue_short, <<>>)} :
     \E l \in {DrainLong(queue_long, s.q, s.tasks)} :
        /\ queue_short' = s.q
        /\ queue_long' = l.q
        /\ ready' = Tail(ready) \o l.tasks
        /\ dispatched' = [c \in TaskType |-> dispatched[c] \o Futs(l.tasks, c)]
  /\ role_change_undrained' = FALSE
  /\ UNCHANGED <<current_role, active_requests, last_active_time, last_rebalance_time,
                 now, qhap_pc, in_flight, created, transition_log, arrivals, completions,
                 running, resolutions, abandoned, body_len, twin>>

dispatch_queue ==
  /\ dispatch_queue_body
  /\ drains' = drains + 1

\* The run_task tasks at the head of the event loop's queue that one
\* dispatch_queue run created. The loop calls its callbacks in the order they
\* were registered, and a dispatch_queue run registers its tasks one after the
\* other, so no other callback runs between two of them.
TasksOfOneDrain ==
  LET n == CHOOSE k \in 0..Len(ready) :
             /\ \A i \in 1..k : ready[i].kind = "run_task" /\ ready[i].seq = i
             /\ k = Len(ready)
                \/ ~(ready[k + 1].kind = "run_task" /\ ready[k + 1].seq = k + 1)
  IN SubSeq(ready, 1, n)

\* the run_task tasks of one drain start: each runs process_request up to its
\* send(), that is inc_requests on the worker its drain chose
run_task ==
  /\ ready # <<>>
  /\ Head(ready).kind = "run_task"
  /\ \E tasks \in {TasksOfOneDrain} :
        /\ active_requests' =
             [w \in Workers |->
                active_requests[w]
                  + Cardinality({i \in DOMAIN tasks : tasks[i].worker = w})]
        /\ in_flight' =
             [w \in Workers |-> [c \in TaskType |->
                in_flight[w][c]
                  + Cardinality({i \in DOMAIN tasks :
                                   tasks[i].worker = w /\ tasks[i].type = c})]]
        /\ running' = running \cup
             {[worker |-> tasks[i].worker, type |-> tasks[i].type, fut |-> tasks[i].fut] :
                i \in DOMAIN tasks}
        /\ ready' = SubSeq(ready, Len(tasks) + 1, Len(ready))
  /\ UNCHANGED <<current_role, last_active_time, queue_long, queue_short,
                 last_rebalance_time, now, qhap_pc, created, dispatched,
                 transition_log, arrivals, completions, resolutions, drains,
                 role_change_undrained,
                 abandoned, body_len, twin>>

\* forwards on a worker that chat_completions started itself
DirectInFlight(worker, c) ==
  in_flight[worker][c] - Cardinality({r \in running : r.worker = worker /\ r.type = c})

\* a directly admitted request's send() returns or raises: process_request's
\* finally block runs and the response or the exception goes to the caller
chat_completions_return(worker, c, ok) ==
  /\ DirectInFlight(worker, c) > 0
  /\ process_request_finally(worker, c, ok)
  /\ UNCHANGED <<running, resolutions>>

\* run_task without its except clause: a failed forward leaves the future pending
run_task_return_unresolved(r, ok) ==
  /\ r \in running
  /\ process_request_finally(r.worker, r.type, ok)
  /\ running' = running \ {r}
  /\ resolutions' = IF ok
                      THEN Append(resolutions, [type |-> r.type, fut |-> r.fut,
                                                sent |-> ok, outcome |-> "result"])
                      ELSE resolutions

\* run_task that answers a failed forward with an empty result
run_task_return_swallow(r, ok) ==
  /\ r \in running
  /\ process_request_finally(r.worker, r.type, ok)
  /\ running' = running \ {r}
  /\ resolutions' = Append(resolutions, [type |-> r.type, fut |-> r.fut,
                                         sent |-> ok, outcome |-> "result"])

\* What the server did to the handler of a caller that disconnected while it
\* awaited its future: it cancelled the handler's task, and with it the future
\* (TRUE), or it let the handler go on waiting (FALSE). The router has no code
\* for either case.
FutureCancelled(r) ==
  IF r.fut \in abandoned[r.type] THEN BOOLEAN ELSE {FALSE}

\* a drained request's send() returns or raises: process_request's finally
\* block, then run_task sets the result or the exception on the future; on a
\* cancelled future both calls raise InvalidStateError and nothing is set
\* The handlers under a steady stream of requests. The counters arrivals,
\* completions and drains, which the router does not have, are left alone, so
\* that a run may go on for ever; at most MaxQueued requests of a class are ever
\* queued and at most MaxReady tasks are ready at a time.
steady_chat_completions(txtlen) ==
  /\ \/ try_get_worker(Classify(txtlen), queue_short) # None
     \/ created[Classify(txtlen)] < MaxQueued
  /\ handle_request_body(txtlen)
  /\ UNCHANGED <<arrivals, body_len>>

steady_chat_completions_return(worker, c) ==
  /\ DirectInFlight(worker, c) > 0
  /\ Len(ready) < MaxReady
  /\ process_request_release(worker, c)
  /\ UNCHANGED <<completions, running, resolutions>>

steady_run_task_return(r, ok) ==
  /\ r \in running
  /\ Len(ready) < MaxReady
  /\ process_request_release(r.worker, r.type)
  /\ running' = running \ {r}
  /\ resolutions' = Append(resolutions,
                           [type |-> r.type, fut |-> r.fut, sent |-> ok,
                            outcome |-> IF ok THEN "result" ELSE "exception"])
  /\ UNCHANGED completions

steady_dispatch_queue ==
  /\ dispatch_queue_body
  /\ UNCHANGED drains

run_task_return(r, ok) ==
  /\ r \in running
  /\ process_request_finally(r.worker, r.type, ok)
  /\ running' = running \ {r}
  /\ \E cancelled \in FutureCancelled(r) :
       resolutions' = Append(resolutions,
                             [type |-> r.type, fut |-> r.fut, sent |-> ok,
                              outcome |-> IF cancelled THEN "invalid_state"
                                          ELSE IF ok THEN "result" ELSE "exception"])

\* the caller of a queued request disconnects: chat_completions is suspended in
\* "await future" and no statement of the router runs; the queue entry stays
caller_disconnects(c) ==
  /\ LET q == IF c = LONG THEN queue_long ELSE queue_short
     IN \E k \in {q[i] : i \in DOMAIN q} \ abandoned[c] :
          abandoned' = [abandoned EXCEPT ![c] = @ \cup {k}]
  /\ UNCHANGED <<current_role, active_requests, last_active_time, queue_long,
                 queue_short, last_rebalance_time, now, qhap_pc, in_flight, ready,
                 created, dispatched, transition_log, arrivals, completions, running,
                 resolutions, drains, role_change_undrained, body_len, twin>>

\* scale-up taking the last SHORT worker of the list
LastShort == CHOOSE w \in Workers :
               current_role[w] = SHORT /\ \A v \in Workers : current_role[v] = SHORT => v <= w

\* scale-down taking the first LONG worker of the list
FirstLong == MinWorker({w \in Workers : current_role[w] = LONG})

FirstShort == MinWorker({w \in Workers : current_role[w] = SHORT})
LastLong == CHOOSE w \in Workers :
              current_role[w] = LONG /\ \A v \in Workers : current_role[v] = LONG => v <= w

\* scale-up without the "keep one SHORT worker" test
ScaleUpCondNoReserve == Len(queue_long) > HAP_HIGH_WATERMARK

\* scale-up triggered at the low watermark
ScaleUpCondLowWatermark == Len(queue_long) > HAP_LOW_WATERMARK /\ n_short > 1

ScaleUpCond == Len(queue_long) > HAP_HIGH_WATERMARK /\ n_short > 1

\* scale-down that needs two LONG workers above the baseline
ScaleDownCondAboveThree == Len(queue_long) < HAP_LOW_WATERMARK /\ n_long > BaselineLong + 1

\* scale-down that only keeps one LONG worker
ScaleDownCondBelowBaseline == Len(queue_long) < HAP_LOW_WATERMARK /\ n_long > 1

ScaleDownCond == Len(queue_long) < HAP_LOW_WATERMARK /\ n_long > BaselineLong

\* cooldown measured from construction instead of from the last transition
InCooldownSinceStart == now < HAP_COOLDOWN

InCooldown == now - last_rebalance_time < HAP_COOLDOWN

\* scale-up that turns every SHORT worker to LONG
run_qhap_loop_all_short ==
  /\ qhap_pc = "wake"
  /\ qhap_pc' = "sleep"
  /\ IF InCooldown
       THEN UNCHANGED <<current_role, last_rebalance_time, transition_log,
                        role_change_undrained>>
       ELSE IF ScaleUpCond /\ n_short > 0
         THEN /\ current_role' = [w \in Workers |-> LONG]
              /\ last_rebalance_time' = now
              /\ transition_log' = Append(transition_log, now)
              /\ role_change_undrained' = TRUE
         ELSE IF ~ScaleUpCond /\ ScaleDownCond /\ n_long > 0
           THEN /\ current_role' = [current_role EXCEPT ![LastLong] = SHORT]
                /\ last_rebalance_time' = now
                /\ transition_log' = Append(transition_log, now)
                /\ role_change_undrained' = TRUE
           ELSE UNCHANGED <<current_role, last_rebalance_time, transition_log,
                            role_change_undrained>>
  /\ UNCHANGED <<active_requests, last_active_time, queue_long, queue_short, now,
                 in_flight, ready, created, dispatched, arrivals, completions,
                 running, resolutions, drains, abandoned, body_len, twin>>

\* one iteration of run_qhap_loop after its sleep has elapsed
run_qhap_loop ==
  /\ qhap_pc = "wake"
  /\ qhap_pc' = "sleep"
  /\ IF InCooldown
       THEN UNCHANGED <<current_role, last_rebalance_time, transition_log,
                        role_change_undrained>>
       ELSE IF ScaleUpCond /\ n_short > 0
         THEN /\ current_role' = [current_role EXCEPT ![FirstShort] = LONG]
              /\ last_rebalance_time' = now
              /\ transition_log' = Append(transition_log, now)
              /\ role_change_undrained' = TRUE
         ELSE IF ~ScaleUpCond /\ ScaleDownCond /\ n_long > 0
           THEN /\ current_role' = [current_role EXCEPT ![LastLong] = SHORT]
                /\ last_rebalance_time' = now
                /\ transition_log' = Append(transition_log, now)
                /\ role_change_undrained' = TRUE
           ELSE UNCHANGED <<current_role, last_rebalance_time, transition_log,
                            role_change_undrained>>
  /\ UNCHANGED <<active_requests, last_active_time, queue_long, queue_short, now,
                 in_flight, ready, created, dispatched, arrivals, completions,
                 running, resolutions, drains, abandoned, body_len, twin>>

\* one second passes; a sleep(1) in progress ends
Tick ==
  /\ now < MaxTime
  /\ now' = now + 1
  /\ qhap_pc' = "wake"
  /\ UNCHANGED <<current_role, active_requests, last_active_time, queue_long,
                 queue_short, last_rebalance_time, in_flight, ready, created,
                 dispatched, transition_log, arrivals, completions, running,
                 resolutions, drains, role_change_undrained,
                 abandoned, body_len, twin>>

\* the steps of the router other than the arrival of a request
Served ==
  \/ \E w \in Workers, c \in TaskType, ok \in BOOLEAN : chat_completions_return(w, c, ok)
  \/ \E r \in running, ok \in BOOLEAN : run_task_return(r, ok)
  \/ dispatch_queue
  \/ run_task
  \/ run_qhap_loop
  \/ Tick

Next ==
  \/ \E txtlen \in BodyLens : chat_completions(txtlen)
  \/ Served

Spec == Init /\ [][Next]_vars

\* The event loop runs every task that is ready, the clock advances and the
\* sleep(1) of run_qhap_loop ends; requests need not arrive and a backend need
\* not answer (the client has no timeout).
Fairness ==
  /\ WF_vars(dispatch_queue)
  /\ WF_vars(run_task)
  /\ WF_vars(run_qhap_loop)
  /\ WF_vars(Tick)

LiveSpec == LiveInit /\ [][Next]_vars /\ Fairness

\* The router under a steady stream of SHORT requests. Every task that is
\* ready runs, and on every worker the pending sends end: a send that can end
\* again and again does end (strong fairness, because the bound MaxReady
\* disables the return while MaxReady tasks are ready).
SteadyBodyLens == {4 * STATIC_THRESHOLD + 3}

NextSteady ==
  \/ \E txtlen \in SteadyBodyLens : steady_chat_completions(txtlen)
  \/ \E w \in Workers, c \in TaskType : steady_chat_completions_return(w, c)
  \/ \E r \in running, ok \in BOOLEAN : steady_run_task_return(r, ok)
  \/ steady_dispatch_queue
  \/ run_task
  \/ run_qhap_loop
  \/ Tick

SteadyFairness ==
  /\ WF_vars(steady_dispatch_queue)
  /\ WF_vars(run_task)
  /\ WF_vars(run_qhap_loop)
  /\ WF_vars(Tick)
  /\ \A w \in Workers :
       SF_vars(\/ \E c \in TaskType : steady_chat_completions_return(w, c)
               \/ \E r \in running, ok \in BOOLEAN :
                    r.worker = w /\ steady_run_task_return(r, ok))

SteadySpec == InitQueued /\ [][NextSteady]_vars /\ SteadyFairness

\* The two variants side by side, driven by the same arrivals, the same sends
\* ending and the same clock; each runs the tasks its own event loop has ready.
\* The variables of the single router stay as they are.
base_vars == <<current_role, active_requests, last_active_time, queue_long, queue_short,
               last_rebalance_time, now, qhap_pc, in_flight, ready, created, dispatched,
               transition_log, arrivals, completions, running, resolutions, drains,
               role_change_undrained, abandoned, body_len>>

TwinArrival(task_type) ==
  /\ twin.arrived < MaxTwinArrivals
  /\ twin' = [twin EXCEPT
                !.arrived = @ + 1,
                !.binary = twin_chat_completions(@, "binary", task_type,
                                                 twin.arrived + 1, twin.now),
                !.counter = twin_chat_completions(@, "counter", task_type,
                                                  twin.arrived + 1, twin.now)]
  /\ UNCHANGED base_vars

TwinSendEnds(k) ==
  /\ \E x \in twin.binary.sending : x.req = k
  /\ \E x \in twin.counter.sending : x.req = k
  /\ twin' = [twin EXCEPT
                !.binary = twin_finally(@, "binary", k, twin.now),
                !.counter = twin_finally(@, "counter", k, twin.now)]
  /\ UNCHANGED base_vars

TwinRunReady ==
  /\ twin.binary.ready # <<>> \/ twin.counter.ready # <<>>
  /\ twin' = [twin EXCEPT
                !.binary = twin_run_ready(@, "binary", twin.now),
                !.counter = twin_run_ready(@, "counter", twin.now)]
  /\ UNCHANGED base_vars

TwinRebalance ==
  /\ twin.qhap_pc = "wake"
  /\ twin' = [twin EXCEPT
                !.qhap_pc = "sleep",
                !.binary = twin_run_qhap_loop(@, twin.now),
                !.counter = twin_run_qhap_loop(@, twin.now)]
  /\ UNCHANGED base_vars

TwinTick ==
  /\ twin.now < MaxTwinTime
  /\ twin' = [twin EXCEPT !.now = @ + 1, !.qhap_pc = "wake"]
  /\ UNCHANGED base_vars

TwinNext ==
  \/ \E task_type \in TaskType : TwinArrival(task_type)
  \/ \E k \in 1..MaxTwinArrivals : TwinSendEnds(k)
  \/ TwinRunReady
  \/ TwinRebalance
  \/ TwinTick

TwinSpec == InitQueued /\ [][TwinNext]_vars

\* The router with callers that may disconnect while their request is queued.
\* A disconnect changes nothing the scheduler reads, so the other
\* specifications leave it out.
CancelInit == InitReleased

NextCancel ==
  \/ Next
  \/ \E c \in TaskType : caller_disconnects(c)

CancelSpec == CancelInit /\ [][NextCancel]_vars

\* The router with the content length of each arriving body recorded, started
\* from the states in which at most HAP_LOW_WATERMARK LONG requests are queued.
AdmissionInit == Init /\ Len(queue_long) <= HAP_LOW_WATERMARK

NextAdmission ==
  \/ \E txtlen \in RecordedBodyLens : chat_completions_recorded(txtlen)
  \/ Served

AdmissionSpec == AdmissionInit /\ [][NextAdmission]_vars

\* ------------------------------------------------------------- properties
RoleCount(c) == Cardinality({w \in Workers : current_role[w] = c})
HasRoom(w) == active_requests[w] < WORKER_CONCURRENCY_LIMIT
IdleFor(w) == IF active_requests[w] > 0 THEN 0 ELSE now - last_active_time[w]
Forwarding(w) == in_flight[w][LONG] + in_flight[w][SHORT]

\* C1: in every reachable state the LONG-role and SHORT-role workers together
\* number NumWorkers (4) and at least one worker has role SHORT.
PartitionInvariant ==
  /\ RoleCount(LONG) + RoleCount(SHORT) = NumWorkers
  /\ RoleCount(SHORT) >= 1

\* a scale-up has happened and left exactly one SHORT worker
PartitionWitness == transition_log # <<>> /\ RoleCount(SHORT) = 1 /\ RoleCount(LONG) = 3

\* C2: for every worker, 0 <= active_requests <= WORKER_CONCURRENCY_LIMIT in
\* every reachable state, for direct admissions and for dispatch_queue placements.
CapacityBound ==
  \A w \in Workers :
    0 <= active_requests[w] /\ active_requests[w] <= WORKER_CONCURRENCY_LIMIT

\* C3: every accept is released exactly once, also when the forward fails:
\* active_requests equals accepts minus releases (the forwards still in flight),
\* so the floor at zero in dec_requests never clamps.
CapacityConservation ==
  \A w \in Workers :
    /\ active_requests[w] = Forwarding(w)
    /\ \A c \in TaskType : in_flight[w][c] >= 0

\* a forward has ended and released its slot while others are still in flight
ConservationWitness ==
  /\ completions >= 1
  /\ \E w \in Workers : Forwarding(w) = WORKER_CONCURRENCY_LIMIT - 1
  /\ \E w \in Workers : Forwarding(w) = WORKER_CONCURRENCY_LIMIT
  /\ ready # <<>>

\* C4: try_get_worker(SHORT) returns None or a worker whose role is SHORT,
\* never a LONG-role worker, whatever the loads, idle times and queues.
StealingDirection ==
  \E w \in {try_get_worker(SHORT, queue_short)} :
    w = None \/ (w \in Workers /\ current_role[w] = SHORT)

\* a SHORT request that arrived when no SHORT request was waiting has been
\* queued although a LONG-role worker with room had been idle beyond the
\* steal cooldown
StealingDirectionWitness ==
  /\ arrivals >= 1
  /\ Len(queue_short) = 1
  /\ queue_short[1] = created[SHORT]
  /\ Len(dispatched[SHORT]) = created[SHORT] - 1
  /\ \A w \in Workers : current_role[w] = SHORT => ~HasRoom(w)
  /\ \E w \in Workers : /\ current_role[w] = LONG
                        /\ HasRoom(w)
                        /\ IdleFor(w) > RASP_STEAL_COOLDOWN
  /\ try_get_worker(SHORT, <<>>) = None

\* C5: try_get_worker(LONG) returns a SHORT-role worker only if that worker has
\* capacity, has been idle strictly longer than RASP_STEAL_COOLDOWN and the
\* SHORT queue is empty; with no LONG home capacity and either a non-empty SHORT
\* queue or no SHORT worker idle beyond the cooldown it returns None.
StealingGating ==
  \E w \in {try_get_worker(LONG, queue_short)} :
  LET noHome == \A v \in Workers : current_role[v] = LONG => ~HasRoom(v)
  IN /\ (w # None /\ current_role[w] = SHORT) =>
          /\ HasRoom(w)
          /\ IdleFor(w) > RASP_STEAL_COOLDOWN
          /\ queue_short = <<>>
     /\ (noHome /\ (queue_short # <<>>
                    \/ \A v \in Workers :
                         current_role[v] = SHORT => IdleFor(v) <= RASP_STEAL_COOLDOWN))
          => w = None

\* a LONG request runs on a SHORT-role worker that was stolen for it, and the
\* other SHORT worker is stealable in turn
StealingGatingWitness ==
  /\ arrivals >= 1
  /\ \E v \in Workers : /\ current_role[v] = SHORT
                        /\ in_flight[v][LONG] = 1
                        /\ active_requests[v] = 1
  /\ LET w == try_get_worker(LONG, queue_short)
     IN w # None /\ current_role[w] = SHORT /\ IdleFor(w) > RASP_STEAL_COOLDOWN

\* the LONG home workers are full, a SHORT worker has been idle beyond the
\* cooldown, and a queued SHORT request keeps it from being stolen: the LONG
\* request that arrived was queued
StealingQueueGateWitness ==
  /\ arrivals >= 1
  /\ queue_long # <<>>
  /\ \A v \in Workers : current_role[v] = LONG => ~HasRoom(v)
  /\ \E v \in Workers : /\ current_role[v] = SHORT
                        /\ HasRoom(v)
                        /\ IdleFor(v) > RASP_STEAL_COOLDOWN
  /\ queue_short # <<>>
  /\ try_get_worker(LONG, queue_short) = None

\* the LONG home workers are full and a SHORT worker with room has been idle
\* for exactly the cooldown: nothing is stolen and the LONG request is queued
StealingRefusedWitness ==
  /\ arrivals >= 1
  /\ queue_long # <<>>
  /\ \A v \in Workers : current_role[v] = LONG => ~HasRoom(v)
  /\ \E v \in Workers : /\ current_role[v] = SHORT
                        /\ active_requests[v] = 0
                        /\ IdleFor(v) = RASP_STEAL_COOLDOWN
  /\ queue_short = <<>>
  /\ try_get_worker(LONG, queue_short) = None

\* C6: for either class, when some worker of that role has free capacity,
\* try_get_worker returns a worker of that role, never a stolen one.
HomeFirst ==
  \A c \in TaskType :
    (\E v \in Workers : current_role[v] = c /\ HasRoom(v)) =>
      \E w \in {try_get_worker(c, queue_short)} :
        w # None /\ current_role[w] = c

\* a LONG request went to its home worker although both SHORT workers passed
\* the steal test, and the next LONG decision is again a home worker
HomeFirstWitness ==
  /\ arrivals >= 1
  /\ \E v \in Workers : current_role[v] = LONG /\ in_flight[v][LONG] = 1
  /\ \A v \in Workers : current_role[v] = SHORT =>
        active_requests[v] = 0 /\ IdleFor(v) > RASP_STEAL_COOLDOWN
  /\ queue_short = <<>>
  /\ current_role[try_get_worker(LONG, queue_short)] = LONG

\* C7: futures of one class leave their queue in the order they were appended:
\* the j-th future dispatch_queue pops from a class queue is the j-th future
\* chat_completions appended to it, across all runs of dispatch_queue.
FifoPerClass ==
  \A c \in TaskType :
    /\ \A j \in DOMAIN dispatched[c] : dispatched[c][j] = j
    /\ Len(dispatched[c]) <= created[c]
    /\ LET q == IF c = LONG THEN queue_long ELSE queue_short
       IN \A i \in DOMAIN q : q[i] = Len(dispatched[c]) + i

\* dispatch_queue has popped every LONG future, the last of them one that
\* chat_completions appended during the run
FifoWitness ==
  /\ arrivals >= 1
  /\ created[LONG] > HAP_HIGH_WATERMARK
  /\ Len(dispatched[LONG]) = created[LONG]

\* C8: within one run of dispatch_queue no LONG future is placed until the
\* SHORT queue is empty or try_get_worker(SHORT) has returned None; with both
\* queues non-empty and both classes placeable the SHORT head goes first.
DrainStep ==
  /\ ready # <<>>
  /\ Head(ready).kind = "dispatch_queue"
  /\ ready' # ready
  /\ completions' = completions

ShortPriority ==
  [][DrainStep =>
       LET new == SubSeq(ready', Len(ready), Len(ready'))
           noShortRoom == \A v \in Workers : current_role[v] = SHORT => ~HasRoom(v)
       IN /\ \A i, j \in DOMAIN new :
               (i < j /\ new[i].type = LONG) => new[j].type = LONG
          /\ (\E i \in DOMAIN new : new[i].type = LONG) =>
               (queue_short' = <<>> \/ noShortRoom)
          /\ (queue_short # <<>> /\ queue_long # <<>> /\ ~noShortRoom
                /\ \E v \in Workers : current_role[v] = LONG /\ HasRoom(v))
               => (new # <<>> /\ new[1].type = SHORT /\ new[1].fut = Head(queue_short))
    ]_vars

\* one run of dispatch_queue has placed a SHORT future and, after it, a LONG one
ShortPriorityWitness ==
  \E i \in DOMAIN ready :
    /\ i + 1 \in DOMAIN ready
    /\ ready[i].kind = "run_task" /\ ready[i].type = SHORT
    /\ ready[i + 1].kind = "run_task" /\ ready[i + 1].type = LONG

\* C9: any two role transitions of run_qhap_loop are at least HAP_COOLDOWN (5 s)
\* apart, so backlog seen at ticks closer than that causes at most one transition.
CooldownSeparation ==
  \A i \in DOMAIN transition_log :
    i > 1 => transition_log[i] - transition_log[i - 1] >= HAP_COOLDOWN

\* two transitions have happened
CooldownWitness == Len(transition_log) >= 2

\* C10: n_long >= BaselineLong (2) in every reachable state; the partition only
\* moves between 2 LONG / 2 SHORT and splits with more LONG workers.
BaselineFloor ==
  /\ RoleCount(LONG) >= BaselineLong
  /\ RoleCount(SHORT) <= NumWorkers - BaselineLong

\* a scale-down has brought the partition back to the baseline
BaselineFloorWitness ==
  /\ Len(transition_log) >= 2
  /\ RoleCount(LONG) = BaselineLong
  /\ Len(queue_long) < HAP_LOW_WATERMARK

\* C11: a SHORT request is never accepted by a worker that holds an accepted,
\* not yet released LONG request, whether it is admitted directly or by a drain,
\* also after a steal and after role changes.
ShortNeverOnLongBusy ==
  [][\A w \in Workers :
       in_flight'[w][SHORT] > in_flight[w][SHORT] => in_flight[w][LONG] = 0]_vars

\* C12: every run_qhap_loop iteration that changes a role is followed by a run
\* of dispatch_queue before the loop's next iteration: when an iteration
\* starts, no earlier role change is still waiting for its drain.
DrainAfterRoleChange ==
  [][(qhap_pc = "wake" /\ qhap_pc' = "sleep") => ~role_change_undrained]_vars

\* C13: every release (after a forward that succeeded or failed, of a directly
\* admitted or of a drained request) is followed by a run of dispatch_queue:
\* the k-th release of a run leads to at least k runs of dispatch_queue.
DrainPending == \E i \in DOMAIN ready : ready[i].kind = "dispatch_queue"

DrainAfterRelease ==
  \A k \in 0..MaxCompletions : (completions > k) ~> (drains > k /\ ~DrainPending)

\* a drained request has been released and every dispatch_queue task created
\* so far has run
DrainAfterReleaseWitness ==
  /\ resolutions # <<>>
  /\ completions >= 1
  /\ drains > completions
  /\ ready = <<>>

\* where the futures of class c are: waiting in the queue, handed to a run_task
\* task that has not started, being forwarded, or resolved
Waiting(c) ==
  LET q == IF c = LONG THEN queue_long ELSE queue_short
  IN {q[i] : i \in DOMAIN q}
NWaiting(c) == IF c = LONG THEN Len(queue_long) ELSE Len(queue_short)
HandedIdx(c) == {i \in DOMAIN ready : ready[i].kind = "run_task" /\ ready[i].type = c}
Handed(c) == {ready[i].fut : i \in HandedIdx(c)}
ForwardedTasks(c) == {r \in running : r.type = c}
Forwarded(c) == {r.fut : r \in ForwardedTasks(c)}
ResolvedIdx(c) == {i \in DOMAIN resolutions : resolutions[i].type = c}
Resolved(c) == {resolutions[i].fut : i \in ResolvedIdx(c)}

\* C14: a future removed from a wait queue is removed once, is handed to one
\* run_task task on one worker, and is resolved exactly once, with a result or
\* with an exception, when its forward ends; no other future is resolved.
\* (Every created future is somewhere, and as many entries exist as futures, so
\* each future is in exactly one place, once.)
SingleAssignment ==
  /\ \A c \in TaskType :
       \E popped \in {Handed(c) \cup Forwarded(c) \cup Resolved(c)} :
       \E n \in {Cardinality(HandedIdx(c)) + Cardinality(ForwardedTasks(c))
                    + Cardinality(ResolvedIdx(c))} :
         /\ Waiting(c) \cup popped = 1..created[c]
         /\ NWaiting(c) + n = created[c]
         /\ {dispatched[c][i] : i \in DOMAIN dispatched[c]} = popped
         /\ Len(dispatched[c]) = n
  /\ \A i \in DOMAIN resolutions : resolutions[i].outcome \in {"result", "exception"}

\* a drained future has been resolved with the response of its forward
SingleAssignmentWitness ==
  /\ resolutions # <<>>
  /\ resolutions[1].outcome = "result"
  /\ resolutions[1].fut \in Resolved(resolutions[1].type)
  /\ resolutions[1].fut \notin Forwarded(resolutions[1].type)
  /\ drains >= 1

\* C15: when a forward fails the worker's slot is released, the exception is set
\* on the future of a request that was queued, the request is neither queued
\* nor forwarded again, and a dispatch_queue task is created for the requests
\* that are still queued.
ForwardEnds == completions' = completions + 1

ForwardingFailure ==
  [][ForwardEnds =>
       /\ \E w \in Workers :
            /\ active_requests[w] > 0
            /\ active_requests' = [active_requests EXCEPT ![w] = @ - 1]
       /\ queue_long' = queue_long /\ queue_short' = queue_short
       /\ created' = created /\ dispatched' = dispatched
       /\ ready' = Append(ready, DispatchTask)
       /\ running' \subseteq running
       /\ \A c \in TaskType :
            Resolved(c)' \cap (Waiting(c)' \cup Handed(c)' \cup Forwarded(c)') = {}
       /\ \A i \in DOMAIN resolutions' :
            resolutions'[i].outcome = (IF resolutions'[i].sent THEN "result" ELSE "exception")
    ]_vars

\* the forward of a drained request failed, its future holds the exception, and
\* the dispatch_queue run that followed placed the next queued request
ForwardingFailureWitness ==
  /\ resolutions # <<>>
  /\ ~resolutions[1].sent
  /\ resolutions[1].outcome = "exception"
  /\ drains >= 2
  /\ Len(dispatched[resolutions[1].type]) > resolutions[1].fut

\* one iteration of the rebalancing loop
RebalancerStep == qhap_pc = "wake" /\ qhap_pc' = "sleep"
PastCooldown == now - last_rebalance_time >= HAP_COOLDOWN
QueueHigh == Len(queue_long) > HAP_HIGH_WATERMARK /\ RoleCount(SHORT) > 1

\* C16: an iteration of run_qhap_loop past the cooldown with more than
\* HAP_HIGH_WATERMARK (10) LONG requests queued and more than one SHORT worker
\* turns exactly the first SHORT worker of the list to LONG and sets
\* last_rebalance_time to the time of the iteration; from 2 LONG : 2 SHORT with
\* 11 LONG requests queued the partition becomes 3 LONG : 1 SHORT.
ScaleUp ==
  [][RebalancerStep /\ PastCooldown /\ QueueHigh =>
       /\ \E w \in Workers :
            /\ current_role[w] = SHORT
            /\ \A v \in Workers : current_role[v] = SHORT => w <= v
            /\ current_role' = [current_role EXCEPT ![w] = LONG]
       /\ last_rebalance_time' = now
       /\ (RoleCount(LONG) = BaselineLong /\ Len(queue_long) = HAP_HIGH_WATERMARK + 1) =>
            (RoleCount(LONG)' = BaselineLong + 1 /\ RoleCount(SHORT)' = 1)
    ]_vars

\* the iteration at HAP_COOLDOWN has turned worker 3 to LONG with 11 LONG
\* requests queued
ScaleUpWitness ==
  /\ transition_log = <<HAP_COOLDOWN>>
  /\ last_rebalance_time = HAP_COOLDOWN
  /\ current_role = [w \in Workers |-> IF w <= BaselineLong + 1 THEN LONG ELSE SHORT]
  /\ Len(queue_long) = HAP_HIGH_WATERMARK + 1

\* C17: an iteration of run_qhap_loop past the cooldown in which the scale-up
\* condition does not hold, fewer than HAP_LOW_WATERMARK (2) LONG requests are
\* queued and there are more than BaselineLong (2) LONG workers turns exactly
\* the LONG worker with the highest id to SHORT and sets last_rebalance_time to
\* the time of the iteration.
ScaleDown ==
  [][/\ RebalancerStep /\ PastCooldown /\ ~QueueHigh
     /\ Len(queue_long) < HAP_LOW_WATERMARK
     /\ RoleCount(LONG) > BaselineLong
     => /\ \E w \in Workers :
             /\ current_role[w] = LONG
             /\ \A v \in Workers : current_role[v] = LONG => v <= w
             /\ current_role' = [current_role EXCEPT ![w] = SHORT]
        /\ last_rebalance_time' = now
    ]_vars

\* after a scale-up, the next role change turned worker 3, then the LONG worker
\* with the highest id, back to SHORT
ScaleDownWitness ==
  /\ Len(transition_log) = 2
  /\ last_rebalance_time = transition_log[2]
  /\ transition_log[2] >= transition_log[1] + HAP_COOLDOWN
  /\ current_role = [w \in Workers |-> IF w <= BaselineLong THEN LONG ELSE SHORT]

\* C18: from every state with more than BaselineLong LONG workers whose
\* cooldown ends within the clock's horizon, if the loop keeps iterating, the
\* roles return to 2 LONG : 2 SHORT, unless HAP_LOW_WATERMARK or more LONG
\* requests are queued.
ReturnToBaseline ==
  (n_long > BaselineLong /\ last_rebalance_time + HAP_COOLDOWN <= MaxTime)
    ~> (\/ n_long = BaselineLong /\ n_short = NumWorkers - BaselineLong
        \/ Len(queue_long) >= HAP_LOW_WATERMARK)

\* the long-heavy partition has been brought back to the baseline by the
\* iteration at the end of the cooldown
ReturnToBaselineWitness ==
  /\ transition_log = <<2 * HAP_COOLDOWN>>
  /\ n_long = BaselineLong
  /\ n_short = NumWorkers - BaselineLong
  /\ Len(queue_long) < HAP_LOW_WATERMARK

\* C19: only an iteration of run_qhap_loop changes a worker's role; placement,
\* inc_requests, dec_requests, enqueueing, dispatch_queue and forwarding,
\* a steal included, leave every current_role as it was.
RoleOnlyByRebalancer ==
  [][current_role' # current_role => RebalancerStep]_vars

\* a LONG request was placed on a SHORT worker by the steal step, a forward has
\* ended and dispatch_queue has run, and no role has changed
RoleOnlyByRebalancerWitness ==
  /\ arrivals >= 1 /\ completions >= 1 /\ drains >= 1
  /\ transition_log = <<>>
  /\ \E w \in Workers : current_role[w] = SHORT /\ in_flight[w][LONG] > 0

\* C20: a run of dispatch_queue is one uninterrupted step, and the
\* inc_requests of every worker it chose happens inside that step: the step
\* raises active_requests of each worker by the number of requests it gave it.
DrainAcceptsInside ==
  [][DrainStep =>
       \A w \in Workers :
         active_requests'[w] = active_requests[w]
           + Cardinality({i \in DOMAIN ready' : ready'[i].kind = "run_task"
                                                /\ ready'[i].worker = w})
           - Cardinality({i \in DOMAIN ready : ready[i].kind = "run_task"
                                               /\ ready[i].worker = w})
    ]_vars

\* C21: a queued request whose caller disconnected before it was dispatched is
\* removed from its queue and is never handed to a worker nor forwarded.
CancelledWhileQueued ==
  \A c \in TaskType :
    abandoned[c] \cap (Waiting(c) \cup Handed(c) \cup Forwarded(c)) = {}

\* a request has arrived and chat_completions has run up to its first await
ArrivalStep == arrivals' = arrivals + 1
ClassOf(len) == IF len \div 4 > STATIC_THRESHOLD THEN LONG ELSE SHORT
OtherClass(c) == IF c = LONG THEN SHORT ELSE LONG
\* workers on which the step started a forward of class c, and the growth of
\* the queue of class c
AdmittedOn(c) == {w \in Workers : in_flight'[w][c] = in_flight[w][c] + 1}
Enqueued(c) ==
  IF c = LONG THEN Len(queue_long') - Len(queue_long)
  ELSE Len(queue_short') - Len(queue_short)

\* C22: a request is handled as exactly one class, LONG if and only if the
\* total length of its message contents divided by 4, rounded down, exceeds
\* STATIC_THRESHOLD (3000), SHORT otherwise (also for an estimate of exactly
\* 3000 and for no messages); the direct admission or the queue it is appended
\* to is of that class and nothing of the other class changes.
Classification ==
  [][ArrivalStep =>
       \E c \in {ClassOf(body_len')} :
         /\ c = LONG <=> body_len' >= 4 * (STATIC_THRESHOLD + 1)
         /\ Cardinality(AdmittedOn(c)) + Enqueued(c) = 1
         /\ \A w \in Workers : in_flight'[w][c] >= in_flight[w][c]
         /\ AdmittedOn(OtherClass(c)) = {} /\ Enqueued(OtherClass(c)) = 0
         /\ \A w \in Workers :
              in_flight'[w][OtherClass(c)] = in_flight[w][OtherClass(c)]
         /\ created'[OtherClass(c)] = created[OtherClass(c)]
    ]_vars

\* a body with an estimate of exactly STATIC_THRESHOLD tokens has been queued
\* as the newest SHORT request
ClassificationWitness ==
  /\ body_len = 4 * STATIC_THRESHOLD + 3
  /\ queue_short # <<>>
  /\ queue_short[Len(queue_short)] = created[SHORT]
  /\ created[LONG] = 0

\* C23: within one run of dispatch_queue the worker returned by try_get_worker
\* is counted before the next try_get_worker call, so the run gives no worker
\* more queued requests than the free slots it had when the run started.
DrainWithinFreeCapacity ==
  [][DrainStep =>
       \A w \in Workers :
         Cardinality({i \in DOMAIN ready' : ready'[i].kind = "run_task"
                                              /\ ready'[i].worker = w})
           - Cardinality({i \in DOMAIN ready : ready[i].kind = "run_task"
                                               /\ ready[i].worker = w})
           <= WORKER_CONCURRENCY_LIMIT - active_requests[w]
    ]_vars

\* C24: when workers of the requested role have room, try_get_worker returns
\* one of them with the smallest active_requests, and of those with that
\* smallest count the one with the lowest id.
LeastLoadedHome ==
  \A c \in TaskType :
    \E home \in {{v \in Workers : current_role[v] = c /\ HasRoom(v)}} :
    \E w \in {try_get_worker(c, queue_short)} :
      home # {} =>
         /\ w \in home
         /\ \A v \in home : active_requests[w] <= active_requests[v]
         /\ \A v \in home : active_requests[v] = active_requests[w] => w <= v

\* of two idle LONG workers the first took the LONG request that arrived; the
\* second is now the least loaded and the next choice
LeastLoadedHomeWitness ==
  /\ arrivals >= 1
  /\ in_flight[1][LONG] = 1 /\ active_requests[1] = 1
  /\ active_requests[2] = 0
  /\ current_role[1] = LONG /\ current_role[2] = LONG
  /\ try_get_worker(LONG, queue_short) = 2

\* C25: an iteration of run_qhap_loop inside the cooldown, or one at which
\* neither the scale-up condition (LONG queue > 10 and n_short > 1) nor the
\* scale-down condition (LONG queue < 2 and n_long > 2) holds, changes no role,
\* not last_rebalance_time, neither queue and no active_requests.
NoTransition ==
  [][(/\ RebalancerStep
      /\ \/ now - last_rebalance_time < HAP_COOLDOWN
         \/ /\ ~(Len(queue_long) > HAP_HIGH_WATERMARK /\ RoleCount(SHORT) > 1)
            /\ ~(Len(queue_long) < HAP_LOW_WATERMARK /\ RoleCount(LONG) > BaselineLong))
     => /\ current_role' = current_role
        /\ last_rebalance_time' = last_rebalance_time
        /\ queue_long' = queue_long /\ queue_short' = queue_short
        /\ active_requests' = active_requests
    ]_vars

\* the loop has iterated past the cooldown with HAP_LOW_WATERMARK or more, and
\* no more than HAP_HIGH_WATERMARK, LONG requests queued, and nothing changed
NoTransitionWitness ==
  /\ qhap_pc = "sleep"
  /\ now - last_rebalance_time >= HAP_COOLDOWN
  /\ Len(queue_long) >= HAP_LOW_WATERMARK
  /\ Len(queue_long) <= HAP_HIGH_WATERMARK
  /\ transition_log = <<>>
  /\ last_rebalance_time = 0

\* C26: one iteration of run_qhap_loop changes the role of at most one worker,
\* so the number of LONG workers moves by at most one from one iteration to
\* the next.
OneTransitionPerTick ==
  [][/\ Cardinality({w \in Workers : current_role'[w] # current_role[w]}) <= 1
     /\ RoleCount(LONG)' - RoleCount(LONG) \in {-1, 0, 1}
    ]_vars

\* an iteration has turned one worker to LONG and the others kept their roles
OneTransitionWitness ==
  /\ Len(transition_log) = 1
  /\ RoleCount(LONG) = BaselineLong + 1
  /\ role_change_undrained
  /\ qhap_pc = "sleep"

\* C27: every run of dispatch_queue ends, and in the state it leaves each
\* queue is empty or try_get_worker for its class returns None.
DrainFixedPoint ==
  [][DrainStep =>
       /\ drains' = drains + 1
       /\ SubSeq(ready', 1, Len(ready) - 1) = Tail(ready)
       /\ queue_short' = <<>> \/ try_get_worker(SHORT, queue_short)' = None
       /\ queue_long' = <<>> \/ try_get_worker(LONG, queue_short)' = None
    ]_vars

\* a run of dispatch_queue has ended with a SHORT request still queued because
\* no SHORT worker had room
DrainFixedPointWitness ==
  /\ drains >= 1
  /\ ready = <<>>
  /\ queue_short # <<>>
  /\ try_get_worker(SHORT, queue_short) = None
  /\ dispatched[SHORT] = <<>>

\* C28: a request that arrives is forwarded at once, its worker counted in the
\* same step, exactly when try_get_worker returns a worker for its class;
\* otherwise its future is appended at the tail of the queue of its class, the
\* other queue is untouched and the future is pending; one of the two always
\* happens.
AdmissionPath ==
  [][ArrivalStep =>
       \E c \in {ClassOf(body_len')} :
       \E w \in {try_get_worker(c, queue_short)} :
         /\ w # None =>
              /\ active_requests' = [active_requests EXCEPT ![w] = @ + 1]
              /\ in_flight' = [in_flight EXCEPT ![w][c] = @ + 1]
              /\ queue_long' = queue_long /\ queue_short' = queue_short
              /\ created' = created
         /\ w = None =>
              /\ active_requests' = active_requests /\ in_flight' = in_flight
              /\ created' = [created EXCEPT ![c] = @ + 1]
              /\ IF c = LONG
                   THEN /\ queue_long' = Append(queue_long, created'[LONG])
                        /\ queue_short' = queue_short
                   ELSE /\ queue_short' = Append(queue_short, created'[SHORT])
                        /\ queue_long' = queue_long
              /\ created'[c] \notin (Handed(c)' \cup Forwarded(c)' \cup Resolved(c)')
    ]_vars

\* a LONG request found both LONG workers full and nothing to steal, and its
\* future is the newest entry of the LONG queue
AdmissionPathWitness ==
  /\ body_len = 4 * (STATIC_THRESHOLD + 1)
  /\ queue_long # <<>>
  /\ queue_long[Len(queue_long)] = created[LONG]
  /\ queue_short = <<>>
  /\ \A w \in Workers : current_role[w] = LONG => ~HasRoom(w)

\* C29: get_idle_duration is 0 while active_requests > 0 and now minus
\* last_active_time otherwise; last_active_time is set, to the current time,
\* by the dec_requests that brings active_requests to 0 and by nothing else.
ReleasedToZero(w) ==
  /\ completions' = completions + 1
  /\ active_requests'[w] = active_requests[w] - 1
  /\ active_requests'[w] = 0

IdleTracking ==
  [][\A w \in Workers :
       /\ get_idle_duration(w)' =
            (IF active_requests'[w] > 0 THEN 0 ELSE now' - last_active_time'[w])
       /\ ReleasedToZero(w) => last_active_time'[w] = now
       /\ ~ReleasedToZero(w) => last_active_time'[w] = last_active_time[w]
    ]_vars

\* a worker's last forward has ended in this second: it is idle, for 0 seconds
IdleTrackingWitness ==
  /\ completions >= 1
  /\ now > 0
  /\ \E w \in Workers : /\ active_requests[w] = 0
                        /\ last_active_time[w] = now
                        /\ get_idle_duration(w) = 0

\* C30: when try_get_worker(LONG) returns a SHORT worker, that worker has
\* active_requests = 0 and no worker before it in the list passes the steal
\* test.
StolenAreIdle ==
  \E w \in {try_get_worker(LONG, queue_short)} :
     (w # None /\ current_role[w] = SHORT) =>
       /\ active_requests[w] = 0
       /\ \A v \in Workers :
            (/\ current_role[v] = SHORT
             /\ HasRoom(v)
             /\ queue_short = <<>>
             /\ IdleFor(v) > RASP_STEAL_COOLDOWN) => w <= v

\* with both SHORT workers idle beyond the cooldown the first was stolen for
\* the LONG request that arrived; the second, still idle, is the next to be
\* stolen
StolenAreIdleWitness ==
  /\ arrivals >= 1
  /\ current_role[3] = SHORT /\ current_role[4] = SHORT
  /\ in_flight[3] = [LONG |-> 1, SHORT |-> 0]
  /\ active_requests[4] = 0
  /\ try_get_worker(LONG, queue_short) = 4

\* C32: for either class and in every state try_get_worker returns None or a
\* worker with free capacity (it reads the state and changes nothing).
TryPlaceTotal ==
  [](\A c \in TaskType :
       \E w \in {try_get_worker(c, queue_short)} :
         w = None \/ (w \in Workers /\ active_requests[w] < WORKER_CONCURRENCY_LIMIT))

\* after an arrival the decision for one class is a worker with room and for
\* the other class None
TryPlaceTotalWitness ==
  /\ arrivals >= 1
  /\ try_get_worker(LONG, queue_short) \in Workers
  /\ try_get_worker(SHORT, queue_short) = None
  /\ queue_short # <<>>
  /\ queue_short[Len(queue_short)] = created[SHORT]

\* C33: a SHORT request that arrives while some SHORT worker has room is
\* forwarded at once on a SHORT worker, however many LONG requests are in
\* flight or queued; it is not queued.
ShortNotHeld ==
  [][(/\ ArrivalStep
      /\ ClassOf(body_len') = SHORT
      /\ \E v \in Workers : current_role[v] = SHORT /\ HasRoom(v))
     => /\ \E w \in Workers :
             /\ current_role[w] = SHORT
             /\ in_flight' = [in_flight EXCEPT ![w][SHORT] = @ + 1]
        /\ queue_short' = queue_short
    ]_vars

\* with both LONG workers full and LONG requests waiting, a SHORT request has
\* been forwarded on arrival
ShortNotHeldWitness ==
  /\ body_len \in {0, 4 * STATIC_THRESHOLD + 3}
  /\ Len(queue_long) >= HAP_LOW_WATERMARK
  /\ \A w \in Workers : current_role[w] = LONG => ~HasRoom(w)
  /\ \E w \in Workers : current_role[w] = SHORT /\ in_flight[w][SHORT] = 1
  /\ queue_short = <<>>
  /\ created[SHORT] = 0

\* C34: workers 1 and 2 are LONG and worker 4 is SHORT in every reachable
\* state; only worker 3 changes role, so the roles are LONG, LONG, SHORT, SHORT
\* or LONG, LONG, LONG, SHORT.
RoleAssignments ==
  /\ current_role[1] = LONG /\ current_role[2] = LONG
  /\ current_role[3] \in {LONG, SHORT}
  /\ current_role[4] = SHORT

\* worker 3 has been turned to LONG and dispatch_queue has run since
RoleAssignmentsWitness ==
  /\ transition_log # <<>>
  /\ current_role[3] = LONG
  /\ ~role_change_undrained
  /\ drains >= 1

\* C35: a request that arrives while the queue of its class is not empty is
\* not forwarded before the requests in that queue: it is not admitted
\* directly.
NoOvertaking ==
  [][ArrivalStep =>
       /\ queue_short # <<>> =>
            \A w \in Workers : in_flight'[w][SHORT] = in_flight[w][SHORT]
       /\ queue_long # <<>> =>
            \A w \in Workers : in_flight'[w][LONG] = in_flight[w][LONG]
    ]_vars

\* C37: between the dispatch_queue run that chose a worker for a queued request
\* and the start of the run_task task that counts it, no step changes that
\* worker's role or its active_requests.
AcceptWhileDecisionHolds ==
  [][\A i \in DOMAIN ready :
       ready[i].kind = "run_task" =>
         /\ current_role'[ready[i].worker] = current_role[ready[i].worker]
         /\ \/ active_requests'[ready[i].worker] = active_requests[ready[i].worker]
            \/ Head(ready).kind = "run_task" /\ ready' # ready
    ]_vars

\* C36: when every forward ends and the ready tasks run, every request
\* appended to queue_long or queue_short is removed by dispatch_queue and its
\* forward starts on a worker.
QueuedEventuallyPlaced ==
  \A c \in TaskType : \A k \in 1..MaxQueued :
    (k \in Waiting(c)) ~> (k \in Forwarded(c) \cup Resolved(c))

\* the two schedulers hold the same roles, queues, sends and ready tasks
SameDecisions ==
  /\ twin.binary.current_role = twin.counter.current_role
  /\ twin.binary.queue_long = twin.counter.queue_long
  /\ twin.binary.queue_short = twin.counter.queue_short
  /\ twin.binary.sending = twin.counter.sending
  /\ twin.binary.ready = twin.counter.ready

\* C31: driven by the same arrivals, sends ending and clock, the busy/idle
\* scheduler and the counting scheduler with limit 1 make the same placement
\* and queueing decisions, and is_busy is true exactly when active_requests
\* is 1.
VariantsEquivalent ==
  /\ SameDecisions
  /\ \A w \in Workers :
       twin.binary.is_busy[w] <=> (twin.counter.active_requests[w] = 1)

====
